---- MODULE Spec2Model ----
(***************************************************************************)
(* Model of the number guessing game: the engine of libguess (Game::new,   *)
(* GameTrait::play, the accessors, compare) driven by an arbitrary caller  *)
(* (Spec, SpecCompare, SpecTwin), and driven by the window of guessui      *)
(* (SpecUI).                                                               *)
(*                                                                         *)
(* u32 values are modelled as unsigned words of WordBits bits: TLC's       *)
(* integers cannot hold 2^32 - 1, so the width is scaled down and every    *)
(* arithmetic operation on a word wraps modulo 2^WordBits.                 *)
(***************************************************************************)
EXTENDS Integers, Sequences, FiniteSets, TLC

\* ---------------------------------------------------------------- bounds
WordBits == 6
MaxGuess == 21
MaxRngState == 19
MaxWrong == 11
MaxCorrect == 2

Modulus == 2 ^ WordBits
U32_MAX == Modulus - 1

\* ------------------------------------------------------- Option<u32>
None == << >>
Some(v) == << v >>
unwrap_or(opt, default) == IF opt = None THEN default ELSE opt[1]

\* ------------------------------------------------ program constants
MIN_NUM == 1
MAX_NUM == 20
LIVES == 10

\* --------------------------------------------------- inputs of the caller
MinArgs == {None, Some(1), Some(30)}
MaxArgs == {None, Some(10)}
LivesArgs == {None, Some(0), Some(3), Some(5)}
RngStates == 0 .. MaxRngState
Guesses == (0 .. MaxGuess) \cup {U32_MAX}

\* ------------------------------------------------------------- StdRng
\* The generator is a deterministic function of its state: the word it
\* yields next, and the state it moves to.
next_u32(r) == r
advance(r) == (r + 1) % (MaxRngState + 1)

\* rng.gen_range(low..=high): panics on an empty range, otherwise one draw
\* in [low, high] and the generator advanced by that draw.
gen_range(r, low, high) ==
    IF low > high
    THEN [panic |-> TRUE, value |-> 0, rng |-> r]
    ELSE [panic |-> FALSE,
          value |-> low + (next_u32(r) % (high - low + 1)),
          rng |-> advance(r)]

\* ---------------------------------------------------------------- state
VARIABLES
    pc,       \* "start": no Game yet; "ready": a Game exists; "panicked"
    rng,      \* the caller's generator, lent to Game::new as &mut
    game,     \* None, or Some(the Game struct)
    game0,    \* history: the Game as Game::new returned it
    args,     \* history: the arguments Game::new was called with
    call,     \* the last call made: its operation, arguments and result
    wrong,    \* history: number of play calls with guess # secret_number
    correct,  \* history: number of play calls with guess = secret_number
    twin,     \* None, or Some(a second Game stepped alongside, its last result)
    guess_input,  \* GuessUI.guess_input: the text in the input field
    message       \* GuessUI.message: the text shown under the button

vars == << pc, rng, game, game0, args, call, wrong, correct, twin, guess_input, message >>

NoCall == [op |-> "none", args |-> << >>, ret |-> << >>]

\* -------------------------------------------------------------- Game::new
\* Mutant: max_num is filled from the min_num argument.
new_max_from_min(min_num, max_num, lives, r) ==
    LET draw == gen_range(r, unwrap_or(min_num, MIN_NUM), unwrap_or(max_num, MAX_NUM))
    IN  [panic |-> draw.panic,
         rng |-> draw.rng,
         game |-> [min_num |-> unwrap_or(min_num, MIN_NUM),
                   max_num |-> unwrap_or(min_num, MAX_NUM),
                   lives |-> unwrap_or(lives, LIVES),
                   rng |-> draw.rng,
                   secret_number |-> draw.value]]

\* Mutant: the secret is drawn from the default range, whatever the arguments.
new_default_range(min_num, max_num, lives, r) ==
    LET draw == gen_range(r, MIN_NUM, MAX_NUM)
    IN  [panic |-> draw.panic,
         rng |-> draw.rng,
         game |-> [min_num |-> unwrap_or(min_num, MIN_NUM),
                   max_num |-> unwrap_or(max_num, MAX_NUM),
                   lives |-> unwrap_or(lives, LIVES),
                   rng |-> draw.rng,
                   secret_number |-> draw.value]]

\* Mutant: an empty range is not drawn from; the secret is the minimum.
new_unchecked_draw(min_num, max_num, lives, r) ==
    LET low == unwrap_or(min_num, MIN_NUM)
        high == unwrap_or(max_num, MAX_NUM)
        draw == IF low > high
                THEN [panic |-> FALSE, value |-> low, rng |-> r]
                ELSE gen_range(r, low, high)
    IN  [panic |-> draw.panic,
         rng |-> draw.rng,
         game |-> [min_num |-> low,
                   max_num |-> high,
                   lives |-> unwrap_or(lives, LIVES),
                   rng |-> draw.rng,
                   secret_number |-> draw.value]]

new(min_num, max_num, lives, r) ==
    LET draw == gen_range(r, unwrap_or(min_num, MIN_NUM), unwrap_or(max_num, MAX_NUM))
    IN  [panic |-> draw.panic,
         rng |-> draw.rng,
         game |-> [min_num |-> unwrap_or(min_num, MIN_NUM),
                   max_num |-> unwrap_or(max_num, MAX_NUM),
                   lives |-> unwrap_or(lives, LIVES),
                   rng |-> draw.rng,
                   secret_number |-> draw.value]]

\* ------------------------------------------------------------- accessors
min_num(g) == g.min_num
max_num(g) == g.max_num
lives(g) == g.lives

\* --------------------------------------------------------------- compare
cmp(a, b) == IF a = b THEN "Equal" ELSE IF a < b THEN "Less" ELSE "Greater"

\* Mutant: the arms for Less and Greater are swapped.
compare_swapped(guess, secret) ==
    CASE cmp(guess, secret) = "Equal" -> "Correct"
      [] cmp(guess, secret) = "Less" -> "TooHigh"
      [] cmp(guess, secret) = "Greater" -> "TooLow"

compare(guess, secret) ==
    CASE cmp(guess, secret) = "Equal" -> "Correct"
      [] cmp(guess, secret) = "Less" -> "TooLow"
      [] cmp(guess, secret) = "Greater" -> "TooHigh"

\* ------------------------------------------------------------ Game::play
\* Mutant: the check for lives() == 0 is missing.
play_unchecked(g, guess) ==
    LET result == IF guess = g.secret_number THEN "Correct"
                  ELSE IF guess < g.secret_number THEN "TooLow" ELSE "TooHigh"
    IN  IF result # "Correct"
        THEN [game |-> [g EXCEPT !.lives = (@ - 1) % Modulus],
              ret |-> result,
              overflow |-> g.lives < 1]
        ELSE [game |-> g, ret |-> result, overflow |-> FALSE]

\* Mutant: a life is charged for every outcome, Correct included.
play_charges_correct(g, guess) ==
    IF g.lives = 0
    THEN [game |-> g, ret |-> "NoMoreLives", overflow |-> FALSE]
    ELSE [game |-> [g EXCEPT !.lives = (@ - 1) % Modulus],
          ret |-> IF guess = g.secret_number THEN "Correct"
                  ELSE IF guess < g.secret_number THEN "TooLow" ELSE "TooHigh",
          overflow |-> FALSE]

\* Mutant: only TooLow is charged.
play_free_too_high(g, guess) ==
    IF g.lives = 0
    THEN [game |-> g, ret |-> "NoMoreLives", overflow |-> FALSE]
    ELSE IF guess < g.secret_number
         THEN [game |-> [g EXCEPT !.lives = (@ - 1) % Modulus],
               ret |-> "TooLow", overflow |-> FALSE]
         ELSE [game |-> g,
               ret |-> IF guess = g.secret_number THEN "Correct" ELSE "TooHigh",
               overflow |-> FALSE]

\* Mutant: an incorrect guess narrows the stored bounds towards the secret.
play_narrows_bounds(g, guess) ==
    IF g.lives = 0
    THEN [game |-> g, ret |-> "NoMoreLives", overflow |-> FALSE]
    ELSE IF guess = g.secret_number
         THEN [game |-> g, ret |-> "Correct", overflow |-> FALSE]
         ELSE IF guess < g.secret_number
              THEN [game |-> [g EXCEPT !.lives = (@ - 1) % Modulus,
                                       !.min_num = (guess + 1) % Modulus],
                    ret |-> "TooLow", overflow |-> FALSE]
              ELSE [game |-> [g EXCEPT !.lives = (@ - 1) % Modulus,
                                       !.max_num = (guess - 1) % Modulus],
                    ret |-> "TooHigh", overflow |-> FALSE]

\* Mutant: a guess outside [min_num, max_num] is answered but not charged.
play_checks_bounds(g, guess) ==
    IF g.lives = 0
    THEN [game |-> g, ret |-> "NoMoreLives", overflow |-> FALSE]
    ELSE LET result == IF guess = g.secret_number THEN "Correct"
                       ELSE IF guess < g.secret_number THEN "TooLow" ELSE "TooHigh"
         IN  IF result # "Correct" /\ guess >= g.min_num /\ guess <= g.max_num
             THEN [game |-> [g EXCEPT !.lives = (@ - 1) % Modulus],
                   ret |-> result, overflow |-> FALSE]
             ELSE [game |-> g, ret |-> result, overflow |-> FALSE]

\* `lives -= 1` on a u32: the result wraps, and overflow is set when the
\* subtraction went below zero (a panic when overflow checks are on).
play(g, guess) ==
    IF lives(g) = 0
    THEN [game |-> g, ret |-> "NoMoreLives", overflow |-> FALSE]
    ELSE LET result == compare(guess, g.secret_number)
         IN  IF result # "Correct"
             THEN [game |-> [g EXCEPT !.lives = (@ - 1) % Modulus],
                   ret |-> result,
                   overflow |-> g.lives < 1]
             ELSE [game |-> g, ret |-> result, overflow |-> FALSE]

\* ----------------------------------------------------------------- Init
Init ==
    /\ pc = "start"
    /\ rng \in RngStates
    /\ game = None
    /\ game0 = None
    /\ args = << >>
    /\ call = NoCall
    /\ wrong = 0
    /\ correct = 0
    /\ twin = None
    /\ guess_input = << >>
    /\ message = << >>

\* -------------------------------------------------------------- actions
New(mn, mx, lv) ==
    /\ pc = "start"
    /\ LET n == new(mn, mx, lv, rng)
       IN  /\ pc' = IF n.panic THEN "panicked" ELSE "ready"
           /\ rng' = n.rng
           /\ game' = IF n.panic THEN None ELSE Some(n.game)
           /\ game0' = game'
    /\ args' = << mn, mx, lv >>
    /\ call' = [op |-> "new", args |-> << mn, mx, lv >>, ret |-> << >>]
    /\ UNCHANGED << wrong, correct, twin, guess_input, message >>

Play(guess) ==
    /\ pc = "ready"
    /\ IF guess = game[1].secret_number
       THEN correct < MaxCorrect
       ELSE wrong < MaxWrong
    /\ LET p == play(game[1], guess)
       IN  /\ game' = Some(p.game)
           /\ call' = [op |-> "play", args |-> << guess >>, ret |-> << p.ret >>]
           /\ pc' \in IF p.overflow THEN {"ready", "panicked"} ELSE {"ready"}
    /\ wrong' = IF guess = game[1].secret_number THEN wrong ELSE wrong + 1
    /\ correct' = IF guess = game[1].secret_number THEN correct + 1 ELSE correct
    /\ UNCHANGED << rng, game0, args, twin, guess_input, message >>

MinNum ==
    /\ pc = "ready"
    /\ call' = [op |-> "min_num", args |-> << >>, ret |-> << min_num(game[1]) >>]
    /\ UNCHANGED << pc, rng, game, game0, args, wrong, correct, twin, guess_input, message >>

MaxNum ==
    /\ pc = "ready"
    /\ call' = [op |-> "max_num", args |-> << >>, ret |-> << max_num(game[1]) >>]
    /\ UNCHANGED << pc, rng, game, game0, args, wrong, correct, twin, guess_input, message >>

Lives ==
    /\ pc = "ready"
    /\ call' = [op |-> "lives", args |-> << >>, ret |-> << lives(game[1]) >>]
    /\ UNCHANGED << pc, rng, game, game0, args, wrong, correct, twin, guess_input, message >>

\* The free function compare, called directly (as tests::test_compare does).
Compare(guess, secret) ==
    /\ pc = "start"
    /\ call' = [op |-> "compare", args |-> << guess, secret >>,
                ret |-> << compare(guess, secret) >>]
    /\ UNCHANGED << pc, rng, game, game0, args, wrong, correct, twin, guess_input, message >>

Next ==
    \/ \E mn \in MinArgs, mx \in MaxArgs, lv \in LivesArgs : New(mn, mx, lv)
    \/ \E guess \in Guesses : Play(guess)
    \/ MinNum
    \/ MaxNum
    \/ Lives

Spec == Init /\ [][Next]_vars

\* compare alone, applied to every pair of inputs.
NextCompare == \E guess \in Guesses, secret \in Guesses : Compare(guess, secret)

SpecCompare == Init /\ [][NextCompare]_vars

\* ------------------------------------------------------- two Games
\* A second Game written as a struct literal (the fields are pub, as in the
\* doc example of GameTrait::play): same lives and secret as the first,
\* any bounds and any generator.
TwinBounds == {<< 0, U32_MAX >>, << 5, 5 >>}
TwinRngs == {0, MaxRngState}

NewTwin(mn, mx, lv, bounds, r) ==
    /\ pc = "start"
    /\ LET n == new(mn, mx, lv, rng)
       IN  /\ pc' = IF n.panic THEN "panicked" ELSE "ready"
           /\ rng' = n.rng
           /\ game' = IF n.panic THEN None ELSE Some(n.game)
           /\ game0' = game'
           /\ twin' = IF n.panic THEN None
                      ELSE Some([game |-> [min_num |-> bounds[1],
                                           max_num |-> bounds[2],
                                           lives |-> n.game.lives,
                                           rng |-> r,
                                           secret_number |-> n.game.secret_number],
                                 ret |-> << >>])
    /\ args' = << mn, mx, lv >>
    /\ call' = [op |-> "new", args |-> << mn, mx, lv >>, ret |-> << >>]
    /\ UNCHANGED << wrong, correct, guess_input, message >>

\* The same guess played on both Games.
PlayBoth(guess) ==
    /\ pc = "ready"
    /\ twin # None
    /\ LET p == play(game[1], guess)
           q == play(twin[1].game, guess)
       IN  /\ game' = Some(p.game)
           /\ twin' = Some([game |-> q.game, ret |-> << q.ret >>])
           /\ call' = [op |-> "play", args |-> << guess >>, ret |-> << p.ret >>]
           /\ pc' \in IF p.overflow \/ q.overflow THEN {"ready", "panicked"} ELSE {"ready"}
    /\ UNCHANGED << rng, game0, args, wrong, correct, guess_input, message >>

NextTwin ==
    \/ \E mn \in MinArgs, mx \in MaxArgs, lv \in LivesArgs, b \in TwinBounds, r \in TwinRngs :
          NewTwin(mn, mx, lv, b, r)
    \/ \E guess \in Guesses : PlayBoth(guess)

SpecTwin == Init /\ [][NextTwin]_vars

\* ------------------------------------------------------------ guessui
\* Text is a sequence of characters; a string literal of the program is one
\* element of such a sequence.
MaxTextLen == 3
TextChars == {"1", "-", " "}
ClockSeeds == 0 .. MaxRngState

DigitChars == << "0", "1", "2", "3", "4", "5", "6", "7", "8", "9" >>
IsDigit(c) == \E i \in 1 .. 10 : DigitChars[i] = c
to_digit(c) == (CHOOSE i \in 1 .. 10 : DigitChars[i] = c) - 1

\* str::trim: leading and trailing whitespace removed.
RECURSIVE trim_start(_)
trim_start(s) ==
    IF s = << >> THEN s
    ELSE IF Head(s) = " " THEN trim_start(Tail(s)) ELSE s

RECURSIVE trim_end(_)
trim_end(s) ==
    IF s = << >> THEN s
    ELSE IF s[Len(s)] = " " THEN trim_end(SubSeq(s, 1, Len(s) - 1)) ELSE s

trim(s) == trim_end(trim_start(s))

\* The digits of an unsigned parse, folded from the left with checked
\* multiplication and addition.
RECURSIVE parse_digits(_, _)
parse_digits(s, acc) ==
    IF s = << >> THEN [ok |-> TRUE, value |-> acc]
    ELSE IF ~IsDigit(Head(s)) THEN [ok |-> FALSE, value |-> 0]
    ELSE IF acc * 10 + to_digit(Head(s)) > U32_MAX THEN [ok |-> FALSE, value |-> 0]
    ELSE parse_digits(Tail(s), acc * 10 + to_digit(Head(s)))

\* Mutant: the text is parsed as a signed, wider integer and cast to the word.
RECURSIVE parse_digits_wrapping(_, _)
parse_digits_wrapping(s, acc) ==
    IF s = << >> THEN [ok |-> TRUE, value |-> acc % Modulus]
    ELSE IF ~IsDigit(Head(s)) THEN [ok |-> FALSE, value |-> 0]
    ELSE parse_digits_wrapping(Tail(s), acc * 10 + to_digit(Head(s)))

parse_signed_cast(s) ==
    IF s = << >> THEN [ok |-> FALSE, value |-> 0]
    ELSE IF Head(s) \in {"+", "-"}
         THEN IF Len(s) = 1 THEN [ok |-> FALSE, value |-> 0]
              ELSE LET r == parse_digits_wrapping(Tail(s), 0)
                   IN  IF Head(s) = "-" /\ r.ok
                       THEN [ok |-> TRUE, value |-> (0 - r.value) % Modulus]
                       ELSE r
         ELSE parse_digits_wrapping(s, 0)

\* str::parse::<u32>: empty text, a lone sign, a '-', a character that is no
\* digit, or a value above u32::MAX is an error; a leading '+' is accepted.
parse(s) ==
    IF s = << >> THEN [ok |-> FALSE, value |-> 0]
    ELSE IF Len(s) = 1 /\ Head(s) \in {"+", "-"} THEN [ok |-> FALSE, value |-> 0]
    ELSE IF Head(s) = "+" THEN parse_digits(Tail(s), 0)
    ELSE parse_digits(s, 0)

\* u32::to_string: the decimal digits.
RECURSIVE to_string(_)
to_string(n) ==
    IF n < 10 THEN << DigitChars[n + 1] >>
    ELSE to_string(n \div 10) \o << DigitChars[(n % 10) + 1] >>

\* The texts typed: every text over TextChars up to MaxTextLen, and some
\* more: a leading '+', a letter, other digits, the largest word and the
\* number after it.
ExtraTexts ==
    {<< "+", "1" >>, << "+" >>, << "a" >>, << "1", "a" >>, << "2", "0" >>, << "9" >>,
     << "-", "0" >>, to_string(U32_MAX), to_string(U32_MAX + 1)}
Texts == (UNION {[1 .. n -> TextChars] : n \in 0 .. MaxTextLen}) \cup ExtraTexts

MSG_CORRECT == << "Congratulations! You guessed the number!" >>
MSG_TOO_HIGH == << "Too high! Try again." >>
MSG_TOO_LOW == << "Too low! Try again." >>
MSG_NO_MORE_LIVES == << "No more lives left. The secret number was " >>
MSG_INVALID == << "Please enter a valid number." >>

\* StdRng::from_seed(Default::default()): the generator of the all-zero seed.
\* StdRng::seed_from_u64(n): the generator of the seed expanded from n.
DefaultSeed == 0
from_seed(seed) == seed % (MaxRngState + 1)
seed_from_u64(n) == from_seed(n + 1)

\* GuessUI::new, given the seconds read from the clock.
GuessUI_new(secs) ==
    LET n == new(None, None, None, seed_from_u64(secs))
    IN  [game |-> n.game, guess_input |-> << >>, message |-> << >>, rng |-> n.rng]

\* Message::GuessInputChanged(value)
update_guess_input_changed(ui, value) ==
    [ui |-> [ui EXCEPT !.guess_input = value], played |-> << >>, result |-> << >>]

\* Mutant: text that does not parse is played as the guess 0.
update_guess_button_clicked_default_zero(ui) ==
    LET parsed == parse(trim(ui.guess_input))
        guess == IF parsed.ok THEN parsed.value ELSE 0
        p == play(ui.game, guess)
    IN  [ui |-> [game |-> p.game,
                 guess_input |-> << >>,
                 message |-> IF ~parsed.ok THEN MSG_INVALID
                             ELSE CASE p.ret = "Correct" -> MSG_CORRECT
                                    [] p.ret = "TooHigh" -> MSG_TOO_HIGH
                                    [] p.ret = "TooLow" -> MSG_TOO_LOW
                                    [] p.ret = "NoMoreLives" ->
                                         MSG_NO_MORE_LIVES \o to_string(p.game.secret_number)],
         played |-> << guess >>,
         result |-> << p.ret >>]

\* Mutant: the secret is revealed as soon as the last life is gone.
update_guess_button_clicked_reveals_early(ui) ==
    LET parsed == parse(trim(ui.guess_input))
    IN  IF parsed.ok
        THEN LET p == play(ui.game, parsed.value)
             IN  [ui |-> [game |-> p.game,
                          guess_input |-> << >>,
                          message |->
                              IF p.game.lives = 0 /\ p.ret # "Correct"
                              THEN MSG_NO_MORE_LIVES \o to_string(p.game.secret_number)
                              ELSE CASE p.ret = "Correct" -> MSG_CORRECT
                                     [] p.ret = "TooHigh" -> MSG_TOO_HIGH
                                     [] p.ret = "TooLow" -> MSG_TOO_LOW],
                  played |-> << parsed.value >>,
                  result |-> << p.ret >>]
        ELSE [ui |-> [ui EXCEPT !.message = MSG_INVALID, !.guess_input = << >>],
              played |-> << >>,
              result |-> << >>]

\* Message::GuessButtonClicked
update_guess_button_clicked(ui) ==
    LET parsed == parse(trim(ui.guess_input))
    IN  IF parsed.ok
        THEN LET p == play(ui.game, parsed.value)
             IN  [ui |-> [game |-> p.game,
                          guess_input |-> << >>,
                          message |->
                              CASE p.ret = "Correct" -> MSG_CORRECT
                                [] p.ret = "TooHigh" -> MSG_TOO_HIGH
                                [] p.ret = "TooLow" -> MSG_TOO_LOW
                                [] p.ret = "NoMoreLives" ->
                                     MSG_NO_MORE_LIVES \o to_string(p.game.secret_number)],
                  played |-> << parsed.value >>,
                  result |-> << p.ret >>]
        ELSE [ui |-> [ui EXCEPT !.message = MSG_INVALID, !.guess_input = << >>],
              played |-> << >>,
              result |-> << >>]

\* Mutant: the new round keeps the message of the old one.
update_play_again_button_clicked_keeps_message(ui) ==
    LET n == new(None, None, None, from_seed(DefaultSeed))
    IN  [ui |-> [ui EXCEPT !.game = n.game], rng |-> n.rng]

\* Message::PlayAgainButtonClicked
update_play_again_button_clicked(ui) ==
    LET n == new(None, None, None, from_seed(DefaultSeed))
    IN  [ui |-> [ui EXCEPT !.game = n.game, !.message = << >>], rng |-> n.rng]

\* Mutant: the Play Again button is shown whenever a message is shown.
view_play_again_with_message(ui) == ui.message # << >>

\* GuessUI::view: whether the Play Again button is part of the view.
view_play_again(ui) == lives(ui.game) = 0

\* The GuessUI the variables hold.
TheUI == [game |-> game[1], guess_input |-> guess_input, message |-> message]

InitUI ==
    \E secs \in ClockSeeds :
        LET ui == GuessUI_new(secs)
        IN  /\ pc = "ready"
            /\ rng = ui.rng
            /\ game = Some(ui.game)
            /\ game0 = Some(ui.game)
            /\ args = << None, None, None >>
            /\ call = NoCall
            /\ wrong = 0
            /\ correct = 0
            /\ twin = None
            /\ guess_input = ui.guess_input
            /\ message = ui.message

GuessInputChanged(value) ==
    /\ pc = "ready"
    /\ LET u == update_guess_input_changed(TheUI, value)
       IN  /\ guess_input' = u.ui.guess_input
           /\ message' = u.ui.message
           /\ game' = Some(u.ui.game)
    /\ call' = [op |-> "GuessInputChanged", args |-> << >>, ret |-> << >>]
    /\ UNCHANGED << pc, rng, game0, args, wrong, correct, twin >>

GuessButtonClicked ==
    /\ pc = "ready"
    /\ LET u == update_guess_button_clicked(TheUI)
           hit == u.played = << game[1].secret_number >>
           miss == u.played # << >> /\ ~hit
       IN  /\ hit => correct < MaxCorrect
           /\ miss => wrong < MaxWrong
           /\ guess_input' = u.ui.guess_input
           /\ message' = u.ui.message
           /\ game' = Some(u.ui.game)
           /\ call' = [op |-> "GuessButtonClicked", args |-> << guess_input >>,
                       ret |-> u.result]
           /\ wrong' = IF miss THEN wrong + 1 ELSE wrong
           /\ correct' = IF hit THEN correct + 1 ELSE correct
    /\ UNCHANGED << pc, rng, game0, args, twin >>

PlayAgainButtonClicked ==
    /\ pc = "ready"
    /\ view_play_again(TheUI)
    /\ LET u == update_play_again_button_clicked(TheUI)
       IN  /\ guess_input' = u.ui.guess_input
           /\ message' = u.ui.message
           /\ game' = Some(u.ui.game)
           /\ game0' = Some(u.ui.game)
           /\ rng' = u.rng
    /\ call' = [op |-> "PlayAgainButtonClicked", args |-> << >>, ret |-> << >>]
    /\ wrong' = 0
    /\ correct' = 0
    /\ UNCHANGED << pc, args, twin >>

NextUI ==
    \/ \E value \in Texts : GuessInputChanged(value)
    \/ GuessButtonClicked
    \/ PlayAgainButtonClicked

SpecUI == InitUI /\ [][NextUI]_vars

\* ------------------------------------------------- reading the state
\* The current Game and the Game as constructed (defined when pc = "ready").
G == game[1]
G0 == game0[1]

\* A step that is one call of play: the call counters advance by one.
PlayStep == call'.op = "play" /\ wrong' + correct' = wrong + correct + 1
Guess == call.args[1]
Ret == call.ret[1]

Outcomes == {"Correct", "TooHigh", "TooLow", "NoMoreLives"}

\* ---------------------------------------------------------------- claims

\* n wrong guesses in a row, straight after construction with n > 0 lives.
AfterNWrong ==
    /\ pc = "ready"
    /\ G0.lives > 0
    /\ correct = 0
    /\ wrong = G0.lives

\* C1: for a Game that starts with n > 0 lives, after n consecutive calls of
\* play with guesses different from the secret lives() is 0, and the next
\* call of play returns NoMoreLives whatever the guess is.
C1_ExhaustedAfterNWrong ==
    /\ [](AfterNWrong => lives(G) = 0)
    /\ [][(AfterNWrong /\ PlayStep) => call'.ret = << "NoMoreLives" >>]_vars

\* The (n+1)-th call was made with the secret itself and was refused.
C1_Witness ==
    /\ pc = "ready"
    /\ G0.lives = 10
    /\ wrong = 10
    /\ correct = 1
    /\ call.op = "play"
    /\ Guess = G.secret_number
    /\ Ret = "NoMoreLives"

\* C2: once lives() is 0, every further call of play, for any guess (the
\* secret included), returns NoMoreLives and leaves lives() at 0.
C2_ExhaustedAbsorbing ==
    [][(pc = "ready" /\ lives(G) = 0 /\ PlayStep)
         => (call'.ret = << "NoMoreLives" >> /\ game' = game /\ pc' = "ready")]_vars

\* Two calls in the exhausted state, the last one with the secret.
C2_Witness ==
    /\ pc = "ready"
    /\ lives(G) = 0
    /\ G0.lives = 3
    /\ wrong = 3
    /\ correct = 2
    /\ call.op = "play"
    /\ Guess = G.secret_number
    /\ Ret = "NoMoreLives"

\* C3: a call of play with guess = secret while lives() > 0 returns Correct
\* and leaves lives() unchanged, however many correct guesses came before.
C3_CorrectIsFree ==
    [][(pc = "ready" /\ lives(G) > 0 /\ PlayStep /\ call'.args[1] = G.secret_number)
         => (call'.ret = << "Correct" >> /\ game'[1].lives = G.lives)]_vars

\* A second correct guess, made after some lives were lost.
C3_Witness ==
    /\ pc = "ready"
    /\ correct = 2
    /\ wrong = 2
    /\ call.op = "play"
    /\ Ret = "Correct"
    /\ lives(G) = G0.lives - 2
    /\ lives(G) > 0

\* C4: a call of play with guess # secret while lives() > 0 takes exactly
\* one life and returns TooLow when guess < secret, TooHigh when
\* guess > secret; a Game brought to 0 lives this way stays at 0.
C4_IncorrectCostsOne ==
    /\ [][(pc = "ready" /\ lives(G) > 0 /\ PlayStep /\ call'.args[1] # G.secret_number)
            => /\ game'[1].lives = G.lives - 1
               /\ call'.args[1] < G.secret_number => call'.ret = << "TooLow" >>
               /\ call'.args[1] > G.secret_number => call'.ret = << "TooHigh" >>]_vars
    /\ [][(pc = "ready" /\ lives(G) = 0 /\ wrong > 0) => game'[1].lives = 0]_vars

\* The guess that takes the last life is answered TooHigh.
C4_Witness ==
    /\ pc = "ready"
    /\ call.op = "play"
    /\ Ret = "TooHigh"
    /\ Guess > G.max_num
    /\ lives(G) = 0
    /\ wrong = G0.lives

\* C5: compare(g, s) is a total three-way comparison: Correct iff g = s,
\* TooLow iff g < s, TooHigh iff g > s, and never NoMoreLives.
C5_CompareThreeWay ==
    call.op = "compare" =>
        LET g == call.args[1]
            s == call.args[2]
        IN  /\ Ret \in {"Correct", "TooLow", "TooHigh"}
            /\ (Ret = "Correct") <=> (g = s)
            /\ (Ret = "TooLow") <=> (g < s)
            /\ (Ret = "TooHigh") <=> (g > s)

\* The largest word compared against the smallest.
C5_Witness ==
    /\ call.op = "compare"
    /\ call.args = << U32_MAX, 0 >>
    /\ Ret = "TooHigh"

Max(a, b) == IF a >= b THEN a ELSE b

\* C6: after any sequence of play calls on a Game that started with n lives,
\* lives() = max(0, n - k), k being the number of calls whose guess differed
\* from the secret; correct guesses anywhere in the sequence change nothing.
C6_LivesAccounting ==
    pc = "ready" => lives(G) = Max(0, G0.lives - wrong)

\* The end of the scenario of tests::test_play: secret 3 in 1..10, ten lives,
\* ten incorrect guesses and one correct one, the last call play(1) -> TooLow.
C6_Witness ==
    /\ pc = "ready"
    /\ G.secret_number = 3
    /\ G.min_num = 1
    /\ G.max_num = 10
    /\ G0.lives = 10
    /\ wrong = 10
    /\ correct = 1
    /\ call = [op |-> "play", args |-> << 1 >>, ret |-> << "TooLow" >>]
    /\ lives(G) = 0

\* The value Game::new is to store for an argument: the value supplied, or
\* the default when the argument is omitted.
Stored(opt, default) == IF Len(opt) = 0 THEN default ELSE opt[1]

\* C7: Game::new stores minimum, maximum and lives as supplied, or as the
\* defaults 1, 20, 10 when omitted, each independently of the others; the
\* accessors return the stored values.
C7_NewStoresArguments ==
    pc = "ready" =>
        /\ G0.min_num = Stored(args[1], 1)
        /\ G0.max_num = Stored(args[2], 20)
        /\ G0.lives = Stored(args[3], 10)
        /\ args = << None, None, None >>
              => (G0.min_num = 1 /\ G0.max_num = 20 /\ G0.lives = 10)
        /\ args = << Some(1), Some(10), Some(5) >>
              => (G0.min_num = 1 /\ G0.max_num = 10 /\ G0.lives = 5)
        /\ (call.op = "min_num" /\ wrong + correct = 0) => Ret = Stored(args[1], 1)
        /\ (call.op = "max_num" /\ wrong + correct = 0) => Ret = Stored(args[2], 20)
        /\ (call.op = "lives" /\ wrong + correct = 0) => Ret = Stored(args[3], 10)

\* new(Some(1), None, Some(5)): a mix of supplied and defaulted arguments,
\* read back through max_num().
C7_Witness ==
    /\ pc = "ready"
    /\ args = << Some(1), None, Some(5) >>
    /\ wrong + correct = 0
    /\ call.op = "max_num"
    /\ Ret = 20

\* C8: for every Game built by Game::new with minimum <= maximum and every
\* draw, min_num <= secret_number <= max_num at construction and after any
\* sequence of play calls.
C8_SecretInRange ==
    pc = "ready" =>
        /\ G.min_num <= G.secret_number
        /\ G.secret_number <= G.max_num

\* The secret drawn is the upper bound itself, and play has been called.
C8_Witness ==
    /\ pc = "ready"
    /\ args = << None, Some(10), None >>
    /\ G.secret_number = 10
    /\ wrong = 3
    /\ correct = 1

\* C9: play always returns one of the four outcomes without failing, and
\* lives never leaves 0 .. (lives at construction): the decrement is never
\* executed at 0, so the unsigned counter never wraps.
C9_PlayNeverFails ==
    /\ call.op = "play" => (pc = "ready" /\ Ret \in Outcomes)
    /\ pc = "ready" => (lives(G) >= 0 /\ lives(G) <= G0.lives)

\* An incorrect guess of the largest word on a Game constructed with 0 lives.
C9_Witness ==
    /\ pc = "ready"
    /\ G0.lives = 0
    /\ call = [op |-> "play", args |-> << U32_MAX >>, ret |-> << "NoMoreLives" >>]
    /\ lives(G) = 0

Accessors == {"min_num", "max_num", "lives"}

\* C10: play changes no field of the Game other than lives (secret_number,
\* min_num, max_num and the stored generator stay as constructed), play
\* leaves the caller's generator alone, and the accessors change nothing.
C10_PlayChangesOnlyLives ==
    /\ [](pc = "ready" => [G EXCEPT !.lives = G0.lives] = G0)
    /\ [][PlayStep => rng' = rng]_vars
    /\ [][call'.op \in Accessors => (game' = game /\ rng' = rng /\ pc' = pc)]_vars

\* min_num() read after lives were lost on both sides of the secret.
C10_Witness ==
    /\ pc = "ready"
    /\ call.op = "min_num"
    /\ wrong = 5
    /\ correct = 1
    /\ lives(G) = 5
    /\ G.rng = rng

\* Game::new has been called with an empty range: the minimum that applies
\* (supplied or default) exceeds the maximum that applies.
EmptyRangeArgs == Len(args) = 3 /\ Stored(args[1], 1) > Stored(args[2], 20)

\* C13 as stated: called with minimum > maximum, Game::new signals no error
\* and returns a fully initialized Game with the supplied fields stored.
C13_NewAcceptsEmptyRange ==
    EmptyRangeArgs =>
        /\ pc = "ready"
        /\ G0.min_num = Stored(args[1], 1)
        /\ G0.max_num = Stored(args[2], 20)
        /\ G0.lives = Stored(args[3], 10)

\* C13 as amended: Game::new has no validation of its own, but called with
\* minimum > maximum the draw from the empty range panics and no Game is
\* returned; called with minimum <= maximum it returns a Game with the
\* arguments (or their defaults) stored.
C13_NewPanicsOnEmptyRange ==
    Len(args) = 3 =>
        IF Stored(args[1], 1) > Stored(args[2], 20)
        THEN pc = "panicked" /\ game = None /\ game0 = None
        ELSE /\ pc = "ready"
             /\ G0.min_num = Stored(args[1], 1)
             /\ G0.max_num = Stored(args[2], 20)
             /\ G0.lives = Stored(args[3], 10)

\* new(Some(30), None, Some(3)): minimum 30 against the default maximum 20.
C13_Witness ==
    /\ args = << Some(30), None, Some(3) >>
    /\ call.op = "new"
    /\ pc = "panicked"

\* C17: play does not check the guess against the bounds: a guess outside
\* [min_num, max_num] made at lives() > 0 costs one life and returns TooLow
\* (below min_num) or TooHigh (above max_num).
C17_OutOfBoundsGuessCharged ==
    [][(pc = "ready" /\ lives(G) > 0 /\ PlayStep
          /\ (call'.args[1] < G.min_num \/ call'.args[1] > G.max_num))
         => /\ game'[1].lives = G.lives - 1
            /\ call'.args[1] < G.min_num => call'.ret = << "TooLow" >>
            /\ call'.args[1] > G.max_num => call'.ret = << "TooHigh" >>]_vars

\* play(20) on a Game with bounds 1..10, as in tests::test_play.
C17_Witness ==
    /\ pc = "ready"
    /\ G.min_num = 1
    /\ G.max_num = 10
    /\ call = [op |-> "play", args |-> << 20 >>, ret |-> << "TooHigh" >>]
    /\ lives(G) = G0.lives - 1
    /\ wrong = 1

\* C14: play depends only on (lives, secret_number, guess): two Games that
\* agree on lives and secret_number, stepped with the same guesses, return
\* the same outcomes and keep the same lives, whatever their bounds and
\* generators are.
C14_PlayIgnoresBoundsAndRng ==
    (pc = "ready" /\ twin # None) =>
        /\ twin[1].game.lives = G.lives
        /\ twin[1].game.secret_number = G.secret_number
        /\ call.op = "play" => twin[1].ret = call.ret

\* Both Games exhausted by the same guesses, the last one outside the
\* bounds of the second Game only; bounds and generators differ.
C14_Witness ==
    /\ pc = "ready"
    /\ twin # None
    /\ << twin[1].game.min_num, twin[1].game.max_num >> = << 5, 5 >>
    /\ << G.min_num, G.max_num >> = << 1, 20 >>
    /\ twin[1].game.rng # G.rng
    /\ G0.lives = 3
    /\ lives(G) = 0
    /\ call = [op |-> "play", args |-> << 7 >>, ret |-> << "TooLow" >>]

\* C11 as stated: Play Again builds the new Game from a freshly seeded
\* generator, so the secret of the replayed round is not forced: whatever
\* number is named, the round can start with another secret.
C11_ReplaySecretNotForced ==
    (pc = "ready" /\ lives(G) = 0) =>
        \A s \in MIN_NUM .. MAX_NUM :
            ENABLED (PlayAgainButtonClicked /\ game'[1].secret_number # s)

\* A step that handles Message::GuessButtonClicked.
ClickStep == call'.op = "GuessButtonClicked" /\ call'.args = << guess_input >>

\* C12: when the Guess button is clicked and the entered text does not parse
\* as a number, the message becomes the invalid-number text and play is not
\* called: the Game is unchanged by that click.
C12_InvalidTextNotPlayed ==
    [][(ClickStep /\ ~parse(trim(guess_input)).ok)
         => /\ message' = MSG_INVALID
            /\ call'.ret = << >>
            /\ game' = game
            /\ wrong' = wrong /\ correct' = correct]_vars

\* The text "1a" clicked after a life was lost: the Game keeps its 9 lives.
C12_Witness ==
    /\ call = [op |-> "GuessButtonClicked", args |-> << << "1", "a" >> >>, ret |-> << >>]
    /\ message = MSG_INVALID
    /\ lives(G) = 9
    /\ wrong = 1

\* The Game a round starts with is one Game::new builds from its defaults.
DefaultGames == {new(None, None, None, r).game : r \in RngStates}

\* C15: whenever the Game is at 0 lives the Play Again action is offered,
\* and taking it replaces the Game with one built by Game::new with all
\* defaults (bounds 1..20, 10 lives) and clears the message.
C15_PlayAgainStartsNewRound ==
    /\ []((pc = "ready" /\ lives(G) = 0) => ENABLED PlayAgainButtonClicked)
    /\ [][call'.op = "PlayAgainButtonClicked"
            => /\ game'[1] \in DefaultGames
               /\ game'[1].min_num = 1 /\ game'[1].max_num = 20 /\ game'[1].lives = 10
               /\ message' = << >>]_vars

\* A round just started by Play Again.
C15_Witness ==
    /\ call.op = "PlayAgainButtonClicked"
    /\ lives(G) = 10
    /\ wrong = 0 /\ correct = 0
    /\ message = << >>

\* C16: Play Again is enabled only at 0 lives, so a Game with lives left is
\* never replaced: also after a Correct guess, the round goes on with the
\* same Game until every life is used up.
C16_NoReplayWhileActive ==
    /\ []((pc = "ready" /\ lives(G) > 0) => ~ENABLED PlayAgainButtonClicked)
    /\ [][(pc = "ready" /\ lives(G) > 0)
            => /\ call'.op # "PlayAgainButtonClicked"
               /\ game0' = game0
               /\ [game'[1] EXCEPT !.lives = G.lives] = G]_vars

\* A Correct guess with lives left: the message is shown, the Game stays.
C16_Witness ==
    /\ call.op = "GuessButtonClicked"
    /\ call.ret = << "Correct" >>
    /\ message = MSG_CORRECT
    /\ lives(G) = 4
    /\ correct = 1
    /\ ~ENABLED PlayAgainButtonClicked

\* The message names the secret.
Reveals(m) == Len(m) >= 1 /\ m[1] = MSG_NO_MORE_LIVES[1]

\* The message the UI shows for an outcome that is not NoMoreLives.
OutcomeText(ret) ==
    IF ret = << >> THEN MSG_INVALID
    ELSE IF ret = << "Correct" >> THEN MSG_CORRECT
    ELSE IF ret = << "TooHigh" >> THEN MSG_TOO_HIGH
    ELSE IF ret = << "TooLow" >> THEN MSG_TOO_LOW
    ELSE << >>

\* C18: the message names the secret only after a play call that returned
\* NoMoreLives (the Game had 0 lives before the click); a click made while
\* the Game had lives shows a text fixed by the outcome tag alone, and the
\* guess that takes the last life shows the TooLow/TooHigh text.
C18_SecretShownOnlyWhenExhausted ==
    /\ [](Reveals(message) =>
            (lives(G) = 0 /\ message = MSG_NO_MORE_LIVES \o to_string(G.secret_number)))
    /\ [][(Reveals(message') /\ message' # message)
            => (ClickStep /\ lives(G) = 0 /\ call'.ret = << "NoMoreLives" >>)]_vars
    /\ [][(ClickStep /\ lives(G) > 0)
            => (call'.ret # << "NoMoreLives" >> /\ message' = OutcomeText(call'.ret))]_vars
    /\ [][(ClickStep /\ lives(G) = 1 /\ game'[1].lives = 0)
            => message' \in {MSG_TOO_LOW, MSG_TOO_HIGH}]_vars

\* The guess that took the last life was answered "Too high".
C18_Witness ==
    /\ call.op = "GuessButtonClicked"
    /\ call.ret = << "TooHigh" >>
    /\ message = MSG_TOO_HIGH
    /\ lives(G) = 0
    /\ wrong = 10

\* An integer written in decimal: an optional sign and at least one digit.
IsIntegerText(s) ==
    /\ Len(s) >= 1
    /\ LET digits == IF s[1] \in {"+", "-"} THEN Tail(s) ELSE s
       IN  Len(digits) >= 1 /\ \A i \in 1 .. Len(digits) : IsDigit(digits[i])

RECURSIVE DecimalValue(_)
DecimalValue(digits) ==
    IF digits = << >> THEN 0
    ELSE 10 * DecimalValue(SubSeq(digits, 1, Len(digits) - 1)) + to_digit(digits[Len(digits)])

IntegerValue(s) ==
    IF s[1] = "-" THEN 0 - DecimalValue(Tail(s))
    ELSE IF s[1] = "+" THEN DecimalValue(Tail(s))
    ELSE DecimalValue(s)

\* The text is an integer that no unsigned word holds.
OutOfWordRange(s) ==
    IsIntegerText(s) /\ (IntegerValue(s) < 0 \/ IntegerValue(s) > U32_MAX)

\* C19: the guess text is parsed as an unsigned word, so text that is an
\* integer but negative or above u32::MAX is handled as invalid input: play
\* is not called and no life is charged.
C19_OutOfRangeIntegerIsInvalid ==
    [][(ClickStep /\ OutOfWordRange(trim(guess_input)))
         => /\ message' = MSG_INVALID
            /\ call'.ret = << >>
            /\ game' = game]_vars

\* "-1" clicked on a Game with lives: nothing is charged.
C19_Witness ==
    /\ call = [op |-> "GuessButtonClicked", args |-> << << "-", "1" >> >>, ret |-> << >>]
    /\ message = MSG_INVALID
    /\ lives(G) = 10

\* The number after the largest word, clicked: nothing is charged.
C19_WitnessTooLarge ==
    /\ call = [op |-> "GuessButtonClicked", args |-> << to_string(U32_MAX + 1) >>, ret |-> << >>]
    /\ message = MSG_INVALID
    /\ lives(G) = 10

====
